---- MODULE Spec2Model ----
(***************************************************************************)
(* locsquash: squash the last N commits of the checked-out branch into one *)
(* commit.  The model follows main() step by step; git is modelled by the  *)
(* effect of the commands main() issues (commit graph with first and       *)
(* second parents, branch refs, index, uncommitted changes, stash stack).  *)
(***************************************************************************)
EXTENDS Integers, Sequences, FiniteSets, TLC

\* ---------------------------------------------------------------- bounds
MaxCommits == 3         \* commits in the history before the run
MaxRuns == 2            \* consecutive runs on one repository
Trees == {1, 2}         \* the contents a commit of the history can have
Dirt == {{}, {"edit"}}  \* the uncommitted changes tried ({}: a clean tree)
\* the stash stacks tried: empty, or one entry the user pushed earlier
Stashes == {<<>>, <<[delta |-> {"old"}, by |-> "user"]>>}
\* the commits with an empty message tried, in a history of t commits: none,
\* or one of them
Blanks(t) == {{}} \cup {{i} : i \in 1..t}

\* ------------------------------------------------------ program constants
maxAttemptsRaised == 10 + 2
maxAttempts == 10
MinSquash == 2
Markers == <<"REBASE_HEAD", "MERGE_HEAD", "CHERRY_PICK_HEAD", "BISECT_LOG">>
StashRef == "stash@{0}"
Overrides == {<<>>, <<" ">>, <<" ", "m", "\n">>}     \* the -m values tried

\* ------------------------------------------------------------- variables
VARIABLES
    commits,     \* git object store: Seq of [p1, p2, tree, msg, adate, cdate]
    head,        \* tip commit of the checked-out branch (0: no commit yet)
    index,       \* content staged for the next commit
    wt,          \* uncommitted changes in the working tree ({}: clean)
    stash,       \* stash stack, stash@{0} first
    branches,    \* other branch refs: name -> commit
    now,         \* wall clock, in seconds
    input,       \* UserInput, filled by flag.Parse
    info,        \* SquashInfo, derived fields
    stashedRef,  \* local of main: "" or the stash reference
    pc,          \* position in main
    exitCode,    \* process exit status once pc = "exit"
    result,      \* how the run ended
    diag,        \* the fatal diagnostic printed
    hint,        \* the recovery hint appended to the diagnostic
    ops,         \* mutating git commands issued so far, in order
    probes,      \* repository inspections performed so far, in order
    out,         \* operations listed by the preview / summary output
    seen,        \* what the environment answered when main probed it
    pre,         \* the repository as it was when the run started
    argv,        \* the command lines this run may have been started with (the
                 \* one it was started with, once the flags are parsed)
    run,         \* the number of this run on the repository
    backups,     \* the backup branches created so far: name, commit, run
    fault        \* the git command the environment made fail ("" if none)

vars == <<commits, head, index, wt, stash, branches, now, input, info,
          stashedRef, pc, exitCode, result, diag, hint, ops, probes, out,
          seen, pre, argv, run, backups, fault>>

repoVars == <<commits, head, index, wt, stash, branches>>

\* ------------------------------------------------------- strings.TrimSpace
IsSpace(c) == c \in {" ", "\n", "\t"}

RECURSIVE TrimLeft(_)
TrimLeft(s) ==
    IF s = <<>> THEN s
    ELSE IF IsSpace(Head(s)) THEN TrimLeft(Tail(s)) ELSE s

RECURSIVE TrimRight(_)
TrimRight(s) ==
    IF s = <<>> THEN s
    ELSE IF IsSpace(s[Len(s)]) THEN TrimRight(SubSeq(s, 1, Len(s) - 1)) ELSE s

TrimSpace(s) == TrimRight(TrimLeft(s))

\* strings.Split(s, sep) for a one-character separator
RECURSIVE SplitAcc(_, _, _)
SplitAcc(s, sep, cur) ==
    IF s = <<>> THEN <<cur>>
    ELSE IF Head(s) = sep THEN <<cur>> \o SplitAcc(Tail(s), sep, <<>>)
    ELSE SplitAcc(Tail(s), sep, Append(cur, Head(s)))

Split(s, sep) == SplitAcc(s, sep, <<>>)

\* strings.SplitN(s, sep, 2): cut at the first separator only
RECURSIVE IndexOf(_, _, _)
IndexOf(s, sep, i) ==
    IF i > Len(s) THEN 0
    ELSE IF s[i] = sep THEN i ELSE IndexOf(s, sep, i + 1)

SplitN2(s, sep) ==
    LET k == IndexOf(s, sep, 1) IN
    IF k = 0 THEN <<s>>
    ELSE <<SubSeq(s, 1, k - 1), SubSeq(s, k + 1, Len(s))>>

\* ------------------------------------------------------------ git queries
NoName == [sec |-> 0, suf |-> 0]          \* the empty string as a branch name

\* HEAD~k: k steps along first parents (0 when the ref does not resolve)
RECURSIVE Ancestor(_, _, _)
Ancestor(cs, c, k) ==
    IF c = 0 THEN 0
    ELSE IF k = 0 THEN c
    ELSE Ancestor(cs, cs[c].p1, k - 1)

\* the commits reachable from c through every parent
RECURSIVE Reach(_, _)
Reach(cs, c) ==
    IF c = 0 THEN {}
    ELSE {c} \cup Reach(cs, cs[c].p1) \cup Reach(cs, cs[c].p2)

\* git rev-list --count HEAD
RevListCount(cs, h) == Cardinality(Reach(cs, h))

\* git log -1 --format=%B <ref>: the raw message followed by a newline
LogBody(cs, c) == cs[c].msg \o <<"\n">>

\* git log -1 --format=%cI <ref>: the committer date followed by a newline
LogCommitterDate(cs, c) == <<cs[c].cdate, "\n">>

\* abbreviated hash of a commit, one token
Hash(c) == ToString(c)

\* %s: the subject line of a (one-line) message
Subject(m) == TrimSpace(m)

\* git log --first-parent -<count> --format=%h\t%s HEAD
RECURSIVE LogLines(_, _, _)
LogLines(cs, c, count) ==
    IF c = 0 \/ count = 0 THEN <<>>
    ELSE <<Hash(c), "\t">> \o Subject(cs[c].msg) \o <<"\n">>
         \o LogLines(cs, cs[c].p1, count - 1)

\* gitLogCommits: trimmed output (stdout), split into lines, each line cut at the
\* tab
RECURSIVE ParseLines(_)
ParseLines(lines) ==
    IF lines = <<>> THEN <<>>
    ELSE LET line == Head(lines)
             parts == SplitN2(line, "\t")
         IN  IF line = <<>> THEN ParseLines(Tail(lines))
             ELSE IF Len(parts) = 2
                  THEN <<[Hash |-> parts[1], Subject |-> parts[2]]>>
                       \o ParseLines(Tail(lines))
                  ELSE ParseLines(Tail(lines))

gitLogCommits(cs, h, count) ==
    CHOOSE parsed \in
        {ParseLines(lines) :
            lines \in {Split(stdout, "\n") :
                         stdout \in {TrimSpace(LogLines(cs, h, count))}}} : TRUE

\* gitHasChangesBetween(base, head): git diff --quiet exits 1 on a difference
gitHasChangesOnAnyError(cs, base, h) == TRUE
gitHasChangesBetween(cs, base, h) == cs[base].tree # cs[h].tree

\* ensureNoInProgressOps: the first marker, in the order probed, that resolves
RECURSIVE FirstMarker(_, _)
FirstMarker(present, i) ==
    IF i > Len(Markers) THEN ""
    ELSE IF Markers[i] \in present THEN Markers[i]
    ELSE FirstMarker(present, i + 1)

ensureSkipsFirstMarker(present) == FirstMarker(present, 2)
ensureChecksRebaseOnly(present) ==
    IF Markers[1] \in present THEN Markers[1] ELSE ""
ensureNoInProgressOps(present) == FirstMarker(present, 1)

\* branchExists: git show-ref --verify refs/heads/<name>
branchExists(brs, name) == name \in DOMAIN brs

\* the i-th candidate of createBackupBranch (i counts from 0)
CandidateNameFromOne(baseName, i) ==
    IF i > 0 THEN [baseName EXCEPT !.suf = i] ELSE baseName
CandidateName(baseName, i) ==
    IF i > 0 THEN [baseName EXCEPT !.suf = i + 1] ELSE baseName

\* createBackupBranch: the first candidate that does not exist, NoName when
\* all maxAttempts candidates exist
RECURSIVE ProbeFrom(_, _, _)
ProbeFrom(brs, baseName, i) ==
    IF i >= maxAttempts THEN NoName
    ELSE IF branchExists(brs, CandidateName(baseName, i))
         THEN ProbeFrom(brs, baseName, i + 1)
         ELSE CandidateName(baseName, i)

createBackupBranchNoRetry(brs, baseName) == baseName
createBackupBranch(brs, baseName) == ProbeFrom(brs, baseName, 0)

\* main: the message of the squashed commit
FinalMessageUntrimmed(newMessage, oldestMessage) ==
    IF newMessage = <<>> THEN oldestMessage ELSE newMessage
FinalMessage(newMessage, oldestMessage) ==
    IF TrimSpace(newMessage) = <<>> THEN oldestMessage ELSE TrimSpace(newMessage)

\* main: HEAD~(N-1), the oldest commit folded
OldestCommitRefIsTarget(n) == n
OldestCommitRef(n) == n - 1

\* main: HEAD~N, the reset target
ResetRefOneShort(n) == n - 1
ResetRefOf(n) == n

\* recoveryHint
recoveryHintBackupOnly(backupName) == [kind |-> "backup", name |-> backupName]
NoHint == [kind |-> "none", name |-> NoName]
recoveryHint(backupName) ==
    IF backupName = NoName THEN [kind |-> "reflog", name |-> NoName]
    ELSE [kind |-> "backup", name |-> backupName]

\* a git command line: the command and the arguments main passes to it
Cmd(op) == [op |-> op, name |-> NoName, ref |-> 0, date |-> <<>>,
            msg |-> <<>>, allowEmpty |-> FALSE]
CmdBranch(name) == [Cmd("branch") EXCEPT !.name = name]
CmdStashPush == Cmd("stash push")
CmdReset(ref) == [Cmd("reset --soft") EXCEPT !.ref = ref]
CmdCommit(date, msg, allowEmpty) ==
    [Cmd("commit") EXCEPT !.date = date, !.msg = msg, !.allowEmpty = allowEmpty]
CmdStashApply == Cmd("stash apply")
CmdStashDrop == Cmd("stash drop")
CmdResetHard(name) == [Cmd("reset --hard") EXCEPT !.name = name]
CmdReflog == Cmd("reflog")
CmdSummary(name) == [Cmd("summary") EXCEPT !.name = name]

\* --------------------------------------------------------------- Init
\* the zero value of UserInput and SquashInfo
ZeroInput == [SquashCount |-> 0, NewMessage |-> <<>>, AllowStash |-> FALSE,
              AllowEmpty |-> FALSE, DryRun |-> FALSE, PrintRecovery |-> FALSE,
              NoBackup |-> FALSE, Yes |-> FALSE]
ZeroInfo == [BackupName |-> NoName, RecentDate |-> <<>>, ResetRef |-> 0,
             CommitMessage |-> <<>>, Dirty |-> FALSE, Commits |-> <<>>]
NotSeen == [git |-> "?", listBackups |-> "?", inside |-> "?", markers |-> {},
            tty |-> "?", response |-> <<"?">>]

\* an answer of the environment, once main has asked for it
Answer(b) == IF b THEN "yes" ELSE "no"

\* the -n values tried
SquashCounts == (0 - 1)..MaxCommits

\* the command lines tried
Requests ==
    {[SquashCount |-> n, NewMessage |-> m, AllowStash |-> st, AllowEmpty |-> ae,
      DryRun |-> dr, PrintRecovery |-> pr, NoBackup |-> nb, Yes |-> y] :
        n \in SquashCounts, m \in Overrides,
        st \in BOOLEAN, ae \in BOOLEAN, dr \in BOOLEAN, pr \in BOOLEAN,
        nb \in BOOLEAN, y \in BOOLEAN}

\* a linear history of t commits: commit i has content f[i], its own message
\* (stored with its final newline; empty when i is in blank) and its own
\* author and committer dates
History(t, f, blank) ==
    [i \in 1..t |->
        [p1 |-> i - 1, p2 |-> 0, tree |-> f[i],
         msg |-> IF i \in blank THEN <<>> ELSE <<"c", ToString(i), "\n">>,
         adate |-> "A" \o ToString(i), cdate |-> "C" \o ToString(i)]]

TreeOf(cs, c) == IF c = 0 THEN 0 ELSE cs[c].tree

Snapshot == [head |-> head, branches |-> branches, stash |-> stash, wt |-> wt,
             commits |-> commits]

InitRun ==
    /\ input = ZeroInput
    /\ info = ZeroInfo
    /\ stashedRef = ""
    /\ pc = "start"
    /\ exitCode = 0
    /\ result = "running"
    /\ diag = ""
    /\ hint = NoHint
    /\ ops = <<>>
    /\ probes = <<>>
    /\ out = <<>>
    /\ seen = NotSeen
    /\ fault = ""

Init ==
    /\ \E t \in 0..MaxCommits :
         \E f \in [1..t -> Trees] :
           \E blank \in Blanks(t) :
              /\ t >= 1 => f[1] = 1
              /\ commits = History(t, f, blank)
              /\ head = t
              /\ index = TreeOf(History(t, f, blank), t)
    /\ wt \in Dirt
    /\ stash \in Stashes
    /\ branches = <<>>
    /\ now = MaxCommits + 1
    /\ InitRun
    /\ pre = Snapshot
    /\ argv = Requests
    /\ run = 1
    /\ backups = <<>>

\* ------------------------------------------------------------ termination
Exit(code, res, d, h) ==
    /\ pc' = "exit"
    /\ exitCode' = code
    /\ result' = res
    /\ diag' = d
    /\ hint' = h

\* fatalf: print the diagnostic (and hint), exit status 1
fatalfExitsZero(d, h) == Exit(0, "failed", d, h)
fatalf(d, h) == Exit(1, "failed", d, h)

Goto(l) ==
    /\ pc' = l
    /\ UNCHANGED <<exitCode, result, diag, hint>>

\* -------------------------------------------------------------- main
\* line 42: input.SquashCount < 2
CountBelowOne(n) == n < MinSquash - 1
CountTooSmall(n) == n < MinSquash

\* line 62: totalCommits < 2
HistoryEmpty(total) == total < 1
HistoryTooShort(total) == total < 2

\* line 65: input.SquashCount >= totalCommits
CountAboveTotal(n, total) == n > total
CountTooLarge(n, total) == n >= total

\* flag.Parse (flag.ExitOnError) on a flag main has not defined: the message
\* and the usage are printed and the process exits with status 2
UndefinedFlag == Exit(2, "failed", "flag provided but not defined", NoHint)

\* lines 14-44: LookPath, flag.Parse, -version, the -n check; listBackups says
\* whether -list-backups, which lines 23-33 do not define, is on the command
\* line
Start ==
    /\ pc = "start"
    /\ \E gitFound \in BOOLEAN, listBackups \in BOOLEAN, showVersion \in BOOLEAN :
         /\ seen' = IF gitFound
                    THEN [seen EXCEPT !.git = Answer(TRUE),
                                      !.listBackups = Answer(listBackups)]
                    ELSE [seen EXCEPT !.git = Answer(FALSE)]
         /\ IF ~gitFound
            THEN /\ fatalf("git is not installed", NoHint)
                 /\ UNCHANGED <<input, argv>>
            ELSE IF listBackups
            THEN /\ UndefinedFlag
                 /\ UNCHANGED <<input, argv>>
            ELSE \E req \in argv :
                   /\ input' = req
                   /\ argv' = {req}
                   /\ IF showVersion
                      THEN Exit(0, "version", "", NoHint)
                      ELSE IF CountTooSmall(req.SquashCount)
                      THEN fatalf("-n must be at least 2", NoHint)
                      ELSE Goto("repo")
    /\ UNCHANGED <<repoVars, now, info, stashedRef, ops, probes, out, pre, run, backups, fault>>

\* lines 48-51: ensureInsideGitRepo
CheckRepo ==
    /\ pc = "repo"
    /\ probes' = Append(probes, "repo")
    /\ \E inside \in BOOLEAN :
         /\ seen' = [seen EXCEPT !.inside = Answer(inside)]
         /\ IF ~inside
            THEN fatalf("not a git repository", NoHint)
            ELSE Goto("inprogress")
    /\ UNCHANGED <<repoVars, now, input, info, stashedRef, ops, out, pre, argv, run, backups, fault>>

\* the marker sets tried: none, or one marker
MarkerSets == {{}} \cup {{Markers[i]} : i \in 1..Len(Markers)}

\* lines 53-56: ensureNoInProgressOps
CheckInProgress ==
    /\ pc = "inprogress"
    /\ probes' = Append(probes, "inprogress")
    /\ \E present \in MarkerSets :
         /\ seen' = [seen EXCEPT !.markers = present]
         /\ IF ensureNoInProgressOps(present) # ""
            THEN fatalf("git operation in progress", NoHint)
            ELSE Goto("count")
    /\ UNCHANGED <<repoVars, now, input, info, stashedRef, ops, out, pre, argv, run, backups, fault>>

\* lines 58-67: gitCommitCount and the two count checks
CheckCount ==
    /\ pc = "count"
    /\ probes' = Append(probes, "count")
    /\ LET totalCommits == RevListCount(commits, head) IN
         IF head = 0
         THEN fatalf("cannot count commits", NoHint)
         ELSE IF HistoryTooShort(totalCommits)
         THEN fatalf("need at least 2 commits", NoHint)
         ELSE IF CountTooLarge(input.SquashCount, totalCommits)
         THEN fatalf("one commit must remain as the base", NoHint)
         ELSE Goto("status")
    /\ UNCHANGED <<repoVars, now, input, info, stashedRef, ops, out, seen, pre, argv, run, backups, fault>>

\* hasUncommittedChanges: git status --porcelain prints something
hasStagedChangesOnly(w, idx, headTree) == idx # headTree
hasNoUncommittedChanges(w, idx, headTree) == FALSE
hasUncommittedChanges(w, idx, headTree) == w # {} \/ idx # headTree

\* where main continues once the plan is complete (lines 120-143)
AfterConfirmNoBackup(inp, inf) ==
    IF inf.Dirty /\ inp.AllowStash THEN "stash" ELSE "reset"
AfterConfirm(inp, inf) ==
    IF inf.Dirty /\ inp.AllowStash THEN "stash" ELSE "backup"
AfterPlanNoPreview(inp, inf) ==
    IF ~inp.Yes THEN "confirm" ELSE AfterConfirm(inp, inf)
AfterPlanAssumeYes(inp, inf) ==
    IF inp.DryRun \/ inp.PrintRecovery THEN "preview"
    ELSE AfterConfirm(inp, inf)
AfterPlan(inp, inf) ==
    IF inp.DryRun \/ inp.PrintRecovery THEN "preview"
    ELSE IF ~inp.Yes THEN "confirm"
    ELSE AfterConfirm(inp, inf)

\* lines 71-82: hasUncommittedChanges and the dirty-tree policy
CheckStatus ==
    /\ pc = "status"
    /\ probes' = Append(probes, "status")
    /\ LET dirty == hasUncommittedChanges(wt, index, TreeOf(commits, head)) IN
         /\ info' = [info EXCEPT !.Dirty = dirty]
         /\ IF dirty /\ ~input.AllowStash
            THEN IF input.DryRun \/ input.PrintRecovery
                 THEN /\ out' = Append(out, Cmd("warning"))
                      /\ Goto("message")
                 ELSE /\ out' = out
                      /\ fatalf("uncommitted changes detected", NoHint)
            ELSE /\ out' = out
                 /\ Goto("message")
    /\ UNCHANGED <<repoVars, now, input, stashedRef, ops, seen, pre, argv, run, backups, fault>>

\* lines 84-95: the oldest folded commit's message and the final message
PlanMessage ==
    /\ pc = "message"
    /\ probes' = Append(probes, "message")
    /\ LET oldest == Ancestor(commits, head, OldestCommitRef(input.SquashCount)) IN
         IF oldest = 0
         THEN /\ fatalf("Failed to retrieve oldest commit message", NoHint)
              /\ info' = info
         ELSE LET oldestMessage == TrimSpace(TrimSpace(LogBody(commits, oldest))) IN
              /\ info' = [info EXCEPT !.CommitMessage =
                                FinalMessage(input.NewMessage, oldestMessage)]
              /\ Goto("date")
    /\ UNCHANGED <<repoVars, now, input, stashedRef, ops, out, seen, pre, argv, run, backups, fault>>

\* line 103: the candidate backup name, from the UTC time in seconds
BackupNameAt(t) == [sec |-> t, suf |-> 0]

\* lines 97-104: the tip's committer date, the backup name, the reset target
PlanDate ==
    /\ pc = "date"
    /\ probes' = Append(probes, "date")
    /\ info' = [info EXCEPT
                  !.RecentDate = TrimSpace(TrimSpace(LogCommitterDate(commits, head))),
                  !.BackupName = BackupNameAt(now),
                  !.ResetRef = ResetRefOf(input.SquashCount)]
    /\ Goto("diff")
    /\ UNCHANGED <<repoVars, now, input, stashedRef, ops, out, seen, pre, argv, run, backups, fault>>

\* lines 106-112: gitHasChangesBetween(ResetRef, HEAD) and the empty check
CheckDiff ==
    /\ pc = "diff"
    /\ probes' = Append(probes, "diff")
    /\ LET base == Ancestor(commits, head, info.ResetRef) IN
         IF base = 0
         THEN fatalf("Error checking commit diff", NoHint)
         ELSE IF ~gitHasChangesBetween(commits, base, head) /\ ~input.AllowEmpty
         THEN fatalf("no net changes", NoHint)
         ELSE Goto("log")
    /\ UNCHANGED <<repoVars, now, input, info, stashedRef, ops, out, seen, pre, argv, run, backups, fault>>

\* lines 114-118: gitLogCommits
LogCommits ==
    /\ pc = "log"
    /\ probes' = Append(probes, "log")
    /\ info' = [info EXCEPT
                  !.Commits = gitLogCommits(commits, head, input.SquashCount)]
    /\ Goto(AfterPlan(input, info))
    /\ UNCHANGED <<repoVars, now, input, stashedRef, ops, out, seen, pre, argv, run, backups, fault>>

\* printDryRun: the operations listed, in the order printed
printDryRun(inp, inf) ==
    (IF ~inp.NoBackup THEN <<CmdBranch(inf.BackupName)>> ELSE <<>>)
    \o (IF inf.Dirty /\ inp.AllowStash THEN <<CmdStashPush>> ELSE <<>>)
    \o <<CmdReset(inf.ResetRef)>>
    \o <<CmdCommit(inf.RecentDate, inf.CommitMessage, inp.AllowEmpty)>>
    \o (IF inf.Dirty /\ inp.AllowStash
        THEN <<CmdStashApply, CmdStashDrop>> ELSE <<>>)

\* printRecovery: the recovery commands listed
printRecovery(inp, inf) ==
    IF inp.NoBackup THEN <<CmdReflog>> ELSE <<CmdResetHard(inf.BackupName)>>

\* lines 120-130: the two previews, then return
Preview ==
    /\ pc = "preview"
    /\ out' = out
              \o (IF input.DryRun THEN printDryRun(input, info) ELSE <<>>)
              \o (IF input.PrintRecovery THEN printRecovery(input, info) ELSE <<>>)
    /\ Exit(0, "preview", "", NoHint)
    /\ UNCHANGED <<repoVars, now, input, info, stashedRef, ops, probes, seen, pre, argv, run, backups, fault>>

\* the answers typed at the prompt
Responses == {<<>>, <<"n">>, <<"Y">>, <<"y", "e", "s">>}

\* strings.ToLower, per character
LowerChar(c) == IF c = "Y" THEN "y" ELSE IF c = "E" THEN "e"
                ELSE IF c = "S" THEN "s" ELSE IF c = "N" THEN "n" ELSE c
ToLower(s) == [i \in 1..Len(s) |-> LowerChar(s[i])]

\* promptConfirm, once stdin is known to be a terminal: Scanln fails on an
\* empty line; otherwise the lowered, trimmed answer must be y or yes
promptConfirmDefaultYes(response) ==
    response = <<>> \/ ToLower(TrimSpace(response)) \in {<<"y">>, <<"y", "e", "s">>}
promptConfirm(response) ==
    IF response = <<>> THEN FALSE
    ELSE LET r == ToLower(TrimSpace(response)) IN
         r = <<"y">> \/ r = <<"y", "e", "s">>

\* lines 132-139: the confirmation prompt
Confirm ==
    /\ pc = "confirm"
    /\ \E tty \in BOOLEAN, response \in Responses :
         IF ~tty
         THEN /\ seen' = [seen EXCEPT !.tty = Answer(FALSE)]
              /\ fatalf("stdin is not a terminal", NoHint)
         ELSE /\ seen' = [seen EXCEPT !.tty = Answer(TRUE), !.response = response]
              /\ IF ~promptConfirm(response)
                 THEN Exit(0, "aborted", "", NoHint)
                 ELSE Goto(AfterConfirm(input, info))
    /\ UNCHANGED <<repoVars, now, input, info, stashedRef, ops, probes, out, pre, argv, run, backups, fault>>

\* ------------------------------------------------------------- Executor
\* what "git stash push -u" can do on a tree that status reported dirty
PushOutcomes == {"fail", "saved", "nothing"}

\* stashPushAndGetRef: git rev-parse -q --verify refs/stash fails
StashRefAssumed(stk) == FALSE
StashRefMissing(stk) == stk = <<>>

\* lines 141-150: stashPushAndGetRef
Stash ==
    /\ pc = "stash"
    /\ ops' = Append(ops, CmdStashPush)
    /\ \E r \in PushOutcomes :
         IF r = "fail"
         THEN /\ fatalf("Failed to stash changes", NoHint)
              /\ fault' = "stash push"
              /\ UNCHANGED <<stash, wt, index, stashedRef>>
         ELSE /\ fault' = IF r = "nothing" THEN "stash push: nothing saved"
                          ELSE fault
              /\ stash' = IF r = "saved"
                          THEN <<[delta |-> wt, by |-> "locsquash"]>> \o stash
                          ELSE stash
              /\ wt' = IF r = "saved" THEN {} ELSE wt
              /\ index' = IF r = "saved" THEN TreeOf(commits, head) ELSE index
              /\ IF StashRefMissing(stash')
                 THEN /\ fatalf("refs/stash not found", NoHint)
                      /\ stashedRef' = stashedRef
                 ELSE /\ stashedRef' = StashRef
                      /\ Goto("backup")
    /\ UNCHANGED <<commits, head, branches, now, input, info, probes, out,
                   seen, pre, argv, run, backups>>

\* git branch <name> HEAD refuses a name that exists and an unborn HEAD
GitBranchAccepted(brs, name, h) == name \notin DOMAIN brs /\ h # 0

\* line 158: the name main keeps is the one createBackupBranch returned
KeptPlannedName(planned, created) == planned
KeptBackupName(planned, created) == created

\* lines 152-162: createBackupBranch, or clearing the name with -no-backup
Backup ==
    /\ pc = "backup"
    /\ IF input.NoBackup
       THEN /\ info' = [info EXCEPT !.BackupName = NoName]
            /\ Goto("reset")
            /\ UNCHANGED <<branches, ops, fault>>
       ELSE LET createdName == createBackupBranch(branches, info.BackupName) IN
            IF createdName = NoName
            THEN /\ fatalf("Failed to create backup branch", NoHint)
                 /\ UNCHANGED <<branches, ops, info, fault>>
            ELSE /\ ops' = Append(ops, CmdBranch(createdName))
                 /\ \E ok \in BOOLEAN :
                      /\ fault' = IF ok THEN fault ELSE "branch"
                      /\ IF ~ok \/ ~GitBranchAccepted(branches, createdName, head)
                         THEN /\ fatalf("Failed to create backup branch", NoHint)
                              /\ UNCHANGED <<branches, info>>
                         ELSE /\ branches' = branches @@ (createdName :> head)
                              /\ info' = [info EXCEPT !.BackupName =
                                            KeptBackupName(info.BackupName,
                                                           createdName)]
                              /\ Goto("reset")
    /\ backups' = IF DOMAIN branches' = DOMAIN branches THEN backups
                  ELSE Append(backups, [name |-> info'.BackupName,
                                        at |-> head, run |-> run])
    /\ UNCHANGED <<commits, head, index, wt, stash, now, input, stashedRef,
                   probes, out, seen, pre, argv, run>>

\* line 166: err != nil, the command failed or the ref did not resolve
ResetFailureIgnored(ok, target) == FALSE
ResetFailed(ok, target) == ~ok \/ target = 0

\* line 165: the reset is --soft, it moves the tip and leaves the index alone
MixedResetIndex(idx, cs, target) == TreeOf(cs, target)
SoftResetIndex(idx, cs, target) == idx

\* lines 164-168: git reset --soft <ResetRef>
SoftReset ==
    /\ pc = "reset"
    /\ ops' = Append(ops, CmdReset(info.ResetRef))
    /\ LET target == Ancestor(commits, head, info.ResetRef) IN
         \E ok \in BOOLEAN :
            /\ fault' = IF ok THEN fault ELSE "reset --soft"
            /\ head' = IF ok /\ target # 0 THEN target ELSE head
            /\ index' = IF ok /\ target # 0
                         THEN SoftResetIndex(index, commits, target)
                         ELSE index
            /\ IF ResetFailed(ok, target)
               THEN fatalf("Failed to perform soft reset",
                           recoveryHint(info.BackupName))
               ELSE Goto("commit")
    /\ UNCHANGED <<commits, wt, stash, branches, now, input, info,
                   stashedRef, probes, out, seen, pre, argv, run, backups>>

\* gitCommitWithDates: the command line and the environment it is run with
gitCommitAuthorDateOnly(isoDate, message, allowEmpty) ==
    [date |-> isoDate, committerDate |-> <<>>, msg |-> message,
     allowEmpty |-> allowEmpty]
gitCommitWithDates(isoDate, message, allowEmpty) ==
    [date |-> isoDate, committerDate |-> isoDate, msg |-> message,
     allowEmpty |-> allowEmpty]

\* git commit refuses an empty message (after its whitespace cleanup), an
\* unparsable date, and an unchanged index unless --allow-empty is given
CommitAccepted(cs, h, idx, c) ==
    /\ TrimSpace(c.msg) # <<>>
    /\ Len(c.date) = 1
    /\ Len(c.committerDate) <= 1
    /\ (idx # TreeOf(cs, h) \/ c.allowEmpty)

\* the commit object git creates: the cleaned message with its final newline;
\* --date sets the author date,
\* GIT_COMMITTER_DATE the committer date, the clock whatever is not given
NewCommit(h, idx, c, clock) ==
    [p1 |-> h, p2 |-> 0, tree |-> idx, msg |-> TrimSpace(c.msg) \o <<"\n">>,
     adate |-> IF c.date = <<>> THEN ToString(clock) ELSE c.date[1],
     cdate |-> IF c.committerDate = <<>> THEN ToString(clock)
               ELSE c.committerDate[1]]

\* lines 176-185: the stash is restored only when this run pushed one
AfterCommitNoRestore(ref) == "summary"
AfterCommitOnlyRestores(ref) == IF ref # "" THEN "apply" ELSE "restore"
AfterCommitDropOnly(ref) == IF ref # "" THEN "drop" ELSE "summary"
AfterCommit(ref) == IF ref # "" THEN "apply" ELSE "summary"

\* lines 170-174: the squashed commit
Commit ==
    /\ pc = "commit"
    /\ ops' = Append(ops, CmdCommit(info.RecentDate, info.CommitMessage,
                                     input.AllowEmpty))
    /\ LET c == gitCommitWithDates(info.RecentDate, info.CommitMessage,
                                    input.AllowEmpty) IN
         \E ok \in BOOLEAN :
            /\ fault' = IF ok THEN fault ELSE "commit"
            /\ IF ~ok \/ ~CommitAccepted(commits, head, index, c)
               THEN /\ fatalf("Failed to create squashed commit",
                              recoveryHint(info.BackupName))
                    /\ UNCHANGED <<commits, head>>
               ELSE /\ commits' = Append(commits, NewCommit(head, index, c, now))
                    /\ head' = Len(commits) + 1
                    /\ Goto(AfterCommit(stashedRef))
    /\ UNCHANGED <<index, wt, stash, branches, now, input, info, stashedRef,
                   probes, out, seen, pre, argv, run, backups>>

\* line 179: err != nil, the command failed or there is no such entry
ApplyFailureIgnored(ok, stk) == FALSE
ApplyFailedOnlyWhenEmpty(ok, stk) == stk = <<>>
ApplyFailed(ok, stk) == ~ok \/ stk = <<>>

\* lines 177-181: git stash apply <stashedRef>
Apply ==
    /\ pc = "apply"
    /\ ops' = Append(ops, CmdStashApply)
    /\ \E ok \in BOOLEAN :
         /\ fault' = IF ok THEN fault ELSE "stash apply"
         /\ wt' = IF ok /\ stash # <<>> THEN wt \cup stash[1].delta ELSE wt
         /\ IF ApplyFailed(ok, stash)
            THEN fatalf("Stash apply failed", recoveryHint(info.BackupName))
            ELSE Goto("drop")
    /\ UNCHANGED <<commits, head, index, stash, branches, now, input, info,
                   stashedRef, probes, out, seen, pre, argv, run, backups>>

\* line 182: err != nil, the command failed or there is no such entry
DropFailureIgnored(ok, stk) == FALSE
DropFailed(ok, stk) == ~ok \/ stk = <<>>

\* lines 182-184: git stash drop <stashedRef>
Drop ==
    /\ pc = "drop"
    /\ ops' = Append(ops, CmdStashDrop)
    /\ \E ok \in BOOLEAN :
         /\ fault' = IF ok THEN fault ELSE "stash drop"
         /\ IF DropFailed(ok, stash)
            THEN /\ fatalf("Applied stash but failed to drop",
                           recoveryHint(info.BackupName))
                 /\ stash' = stash
            ELSE /\ stash' = Tail(stash)
                 /\ Goto("summary")
    /\ UNCHANGED <<commits, head, index, wt, branches, now, input, info,
                   stashedRef, probes, out, seen, pre, argv, run, backups>>

\* lines 187-190: the success summary, then return
Finish ==
    /\ pc = "summary"
    /\ out' = Append(out, CmdSummary(IF ~input.NoBackup THEN info.BackupName
                                      ELSE NoName))
    /\ Exit(0, "done", "", NoHint)
    /\ UNCHANGED <<repoVars, now, input, info, stashedRef, ops, probes, seen, pre, argv, run, backups, fault>>

Next ==
    \/ Start
    \/ CheckRepo
    \/ CheckInProgress
    \/ CheckCount
    \/ CheckStatus
    \/ PlanMessage
    \/ PlanDate
    \/ CheckDiff
    \/ LogCommits
    \/ Preview
    \/ Confirm
    \/ Stash
    \/ Backup
    \/ SoftReset
    \/ Commit
    \/ Apply
    \/ Drop
    \/ Finish

Spec == Init /\ [][Next]_vars

\* the runs followed to their end: a history of MaxCommits commits whose
\* contents alternate, and the command lines with -n 2
InitLive ==
    /\ commits = History(MaxCommits, [i \in 1..MaxCommits |-> 1 + ((i + 1) % 2)], {})
    /\ head = MaxCommits
    /\ index = TreeOf(commits, head)
    /\ wt \in Dirt
    /\ stash \in Stashes
    /\ branches = <<>>
    /\ now = MaxCommits + 1
    /\ InitRun
    /\ pre = Snapshot
    /\ argv = {r \in Requests : r.SquashCount = MinSquash}
    /\ run = 1
    /\ backups = <<>>

\* main is one sequential process: whenever a step is possible it is taken
SpecLive == InitLive /\ [][Next]_vars /\ WF_vars(Next)

\* ------------------------------------------------- consecutive runs
\* how many of the candidate names of the first run already exist
PreExisting == {0, 1, maxAttempts - 1, maxAttempts}

\* a repository with room for MaxRuns squashes, on which earlier runs have
\* left backup branches, and a first command line with -n 2
InitRuns ==
    /\ \E f \in [1..(MaxCommits + MaxRuns - 1) -> Trees] :
         /\ f[1] = 1
         /\ commits = History(MaxCommits + MaxRuns - 1, f, {})
         /\ index = f[MaxCommits + MaxRuns - 1]
    /\ head = MaxCommits + MaxRuns - 1
    /\ wt \in Dirt
    /\ stash = <<>>
    /\ now = MaxCommits + MaxRuns
    /\ \E k \in PreExisting :
         branches = [n \in {CandidateName(BackupNameAt(now), i) : i \in 0..(k - 1)}
                        |-> 1]
    /\ InitRun
    /\ pre = Snapshot
    /\ argv = {r \in Requests : r.SquashCount = MinSquash}
    /\ run = 1
    /\ backups = <<>>

\* the same command line is run again on the repository the last run left,
\* within the same second or in the next one
NewRun ==
    /\ pc = "exit"
    /\ result = "done"
    /\ run < MaxRuns
    /\ run' = run + 1
    /\ argv' = {input}
    /\ now' \in {now, now + 1}
    /\ input' = ZeroInput
    /\ info' = ZeroInfo
    /\ stashedRef' = ""
    /\ pc' = "start"
    /\ exitCode' = 0
    /\ result' = "running"
    /\ diag' = ""
    /\ hint' = NoHint
    /\ ops' = <<>>
    /\ probes' = <<>>
    /\ out' = <<>>
    /\ seen' = NotSeen
    /\ fault' = ""
    /\ pre' = Snapshot
    /\ UNCHANGED <<repoVars, backups>>

NextRuns ==
    \/ Next
    \/ NewRun

SpecRuns == InitRuns /\ [][NextRuns]_vars

\* a repository on which earlier runs have left backup branches under the
\* names this run will try, and a command line with -n 2
InitRetry ==
    /\ commits = History(MaxCommits, [i \in 1..MaxCommits |-> 1 + ((i + 1) % 2)], {})
    /\ head = MaxCommits
    /\ index = TreeOf(commits, head)
    /\ wt \in Dirt
    /\ stash \in Stashes
    /\ now = MaxCommits + 1
    /\ \E k \in PreExisting :
         branches = [n \in {CandidateName(BackupNameAt(now), i) : i \in 0..(k - 1)}
                        |-> 1]
    /\ InitRun
    /\ pre = Snapshot
    /\ argv = {r \in Requests : r.SquashCount = MinSquash}
    /\ run = 1
    /\ backups = <<>>

\* one run on such a repository, carried through to its end: main is one
\* sequential process, whenever a step is possible it is taken
SpecRetryLive == InitRetry /\ [][Next]_vars /\ WF_vars(Next)

\* ------------------------------------------------- histories with a merge
\* the lengths tried for the side branch that is merged into the tip
Sides == {1, 2}

\* a history whose tip is a merge commit: commits 1..t-1 are the first-parent
\* chain below the tip, commits t..t+s-1 a side branch forked from the root,
\* and commit t+s merges the side branch into the chain
Merged(t, s) ==
    [i \in 1..(t + s) |->
        [p1 |-> IF i = t + s THEN t - 1 ELSE IF i = t THEN 1 ELSE i - 1,
         p2 |-> IF i = t + s THEN t + s - 1 ELSE 0,
         tree |-> IF i = 1 THEN 1 ELSE 2,
         msg |-> <<"c", ToString(i), "\n">>,
         adate |-> "A" \o ToString(i), cdate |-> "C" \o ToString(i)]]

InitMerge ==
    /\ \E t \in 2..MaxCommits, s \in Sides :
         /\ commits = Merged(t, s)
         /\ head = t + s
         /\ index = 2
    /\ wt \in Dirt
    /\ stash = <<>>
    /\ branches = <<>>
    /\ now = MaxCommits + 1
    /\ InitRun
    /\ pre = Snapshot
    /\ argv = Requests
    /\ run = 1
    /\ backups = <<>>

SpecMerge == InitMerge /\ [][Next]_vars

TypeOK ==
    /\ pc \in {"start", "repo", "inprogress", "count", "status", "message",
                "date", "diff", "log", "preview", "confirm", "stash", "backup",
                "reset", "commit", "apply", "drop", "summary", "exit"}
    /\ exitCode \in {0, 1, 2}
    /\ result \in {"running", "version", "preview", "aborted", "done", "failed"}
    /\ head \in 0..Len(commits)
\* ---------------------------------------------------------------- claims
\* the run has ended with the success summary
Done == pc = "exit" /\ result = "done"

\* T: the commits reachable from the tip before the run
Total == RevListCount(pre.commits, pre.head)

\* the flags of this run have been parsed into input
Parsed == argv = {input}

\* a squash request: the flags are parsed and the run is not a -version query
Request == Parsed /\ result # "version"

\* C1: on a linear history of T commits, a real run with 2 <= N < T in which
\* every git operation succeeds ends with exactly T - N + 1 commits reachable
\* from the tip.
C1_CommitCount ==
    (Done /\ 2 <= input.SquashCount /\ input.SquashCount < Total)
        => RevListCount(commits, head) = Total - input.SquashCount + 1

C1_Witness ==
    /\ Done
    /\ Total = 3
    /\ input.SquashCount = 2
    /\ RevListCount(commits, head) = 2

\* C2: after a successful run the author date and the committer date of the
\* new tip both equal the committer date read from the old tip during
\* planning, and neither is the wall-clock time of the run.
C2_TipDates ==
    Done => /\ commits[head].adate = pre.commits[pre.head].cdate
            /\ commits[head].cdate = pre.commits[pre.head].cdate
            /\ info.RecentDate = <<pre.commits[pre.head].cdate>>
            /\ commits[head].adate # ToString(now)
            /\ commits[head].cdate # ToString(now)

C2_Witness ==
    /\ Done
    /\ head # pre.head
    /\ pre.commits[pre.head].adate = "A3"
    /\ commits[head].adate = "C3"
    /\ commits[head].cdate = "C3"

\* C3: without a -m override (none given, or one that is blank) the message
\* of the new tip is the trimmed message of the commit N-1 behind the old tip.
C3_DefaultMessage ==
    (Done /\ TrimSpace(input.NewMessage) = <<>>) =>
        TrimSpace(commits[head].msg) =
            TrimSpace(pre.commits[Ancestor(pre.commits, pre.head,
                                           input.SquashCount - 1)].msg)

C3_Witness ==
    /\ Done
    /\ input.NewMessage = <<>>
    /\ input.SquashCount = 2
    /\ Total = 3
    /\ pre.commits[2].msg = <<"c", "2", "\n">>
    /\ TrimSpace(commits[head].msg) = <<"c", "2">>

\* C4: a run with -dry-run and/or -print-recovery never moves the tip, never
\* creates a branch, never pushes, applies or drops a stash: it issues no
\* mutating git command at all.
C4_PreviewReadOnly ==
    (input.DryRun \/ input.PrintRecovery) =>
        /\ ops = <<>>
        /\ head = pre.head
        /\ commits = pre.commits
        /\ branches = pre.branches
        /\ stash = pre.stash
        /\ wt = pre.wt

C4_Witness ==
    /\ pc = "exit"
    /\ result = "preview"
    /\ input.DryRun
    /\ input.AllowStash
    /\ info.Dirty
    /\ ~input.NoBackup
    /\ Len(out) = 6

\* C5: on a repository with T >= 2 commits a squash request (a run that is
\* not a -version query) with N >= T never gets past the count check: it ends
\* with exit status 1 on a validation error and the tip, the branches and the
\* stash are untouched, preview flags or not.
C5_CountTooLarge ==
    (Request /\ Total >= 2 /\ input.SquashCount >= Total) =>
        /\ pc \in {"repo", "inprogress", "count", "exit"}
        /\ ops = <<>>
        /\ head = pre.head
        /\ branches = pre.branches
        /\ stash = pre.stash
        /\ pc = "exit" =>
             /\ exitCode = 1
             /\ result = "failed"
             /\ diag \in {"not a git repository", "git operation in progress",
                          "one commit must remain as the base"}

C5_Witness ==
    /\ pc = "exit"
    /\ Total = 2
    /\ input.SquashCount = 2
    /\ input.DryRun
    /\ exitCode = 1
    /\ diag = "one commit must remain as the base"

\* C6: a squash request (a run that is not a -version query) with N < 2, zero
\* and negative included, fails whatever the repository is, with exit status
\* 1, and before any inspection of the repository: no probe and no git
\* command has been issued.
C6_CountTooSmall ==
    (Request /\ input.SquashCount < 2) =>
        /\ pc = "exit"
        /\ exitCode = 1
        /\ result = "failed"
        /\ diag = "-n must be at least 2"
        /\ probes = <<>>
        /\ ops = <<>>
        /\ seen.inside = "?"
        /\ head = pre.head
        /\ branches = pre.branches
        /\ stash = pre.stash

C6_Witness ==
    /\ Parsed
    /\ input.SquashCount = 0 - 1
    /\ pc = "exit"
    /\ exitCode = 1
    /\ probes = <<>>
    /\ pre.head = MaxCommits
    /\ pre.stash # <<>>

\* C7: with -stash on a dirty tree, after a successful run every uncommitted
\* change that existed before the run is in the working tree again, and no
\* stash entry pushed by the run is left on the stash stack.
C7_StashRestored ==
    (Done /\ input.AllowStash /\ pre.wt # {}) =>
        /\ info.Dirty
        /\ pre.wt \subseteq wt
        /\ \A i \in 1..Len(stash) : stash[i].by # "locsquash"

C7_Witness ==
    /\ Done
    /\ input.AllowStash
    /\ pre.wt = {"edit"}
    /\ wt = {"edit"}
    /\ pre.stash # <<>>
    /\ stash = pre.stash
    /\ fault = ""
    /\ ops[1].op = "stash push"
    /\ ops[Len(ops)].op = "stash drop"

\* the soft reset has been issued in this run
ResetIssued == \E i \in 1..Len(ops) : ops[i].op = "reset --soft"

\* C8: in a real run without -no-backup, when the soft reset is issued and in
\* every later state of the run, failures included, a backup branch exists
\* and points at the tip the run started from; a failure names it in its hint.
C8_BackupExists ==
    (~input.NoBackup /\ (pc = "reset" \/ ResetIssued)) =>
        /\ info.BackupName # NoName
        /\ info.BackupName \in DOMAIN branches
        /\ branches[info.BackupName] = pre.head
        /\ info.BackupName \notin DOMAIN pre.branches
        /\ (pc = "exit" /\ result = "failed") =>
               hint = [kind |-> "backup", name |-> info.BackupName]

C8_Witness ==
    /\ pc = "exit"
    /\ result = "failed"
    /\ diag = "Stash apply failed"
    /\ ~input.NoBackup
    /\ head # pre.head
    /\ info.BackupName \in DOMAIN branches
    /\ branches[info.BackupName] = pre.head

\* C9: consecutive successful real runs that derive the same candidate backup
\* name end with pairwise distinct backup branches, the later ones carrying a
\* numeric suffix; no branch that existed is moved or overwritten, and a
\* collision alone fails a run only when all maxAttempts candidates exist.
C9_DistinctBackups ==
    /\ \A b \in DOMAIN pre.branches :
          b \in DOMAIN branches /\ branches[b] = pre.branches[b]
    /\ \A i \in 1..Len(backups) :
          /\ backups[i].name \in DOMAIN branches
          /\ branches[backups[i].name] = backups[i].at
    /\ \A i, j \in 1..Len(backups) :
          i < j => /\ backups[i].name # backups[j].name
                   /\ backups[i].name.sec = backups[j].name.sec
                        => backups[j].name.suf >= 2
    /\ (pc = "exit" /\ diag = "Failed to create backup branch" /\ fault = "")
          => \A i \in 2..maxAttempts :
                /\ info.BackupName \in DOMAIN branches
                /\ [info.BackupName EXCEPT !.suf = i] \in DOMAIN branches

C9_Witness ==
    /\ Done
    /\ run = 2
    /\ Len(backups) = 2
    /\ backups[1].name = [sec |-> now, suf |-> 0]
    /\ backups[2].name = [sec |-> now, suf |-> 2]
    /\ branches[backups[1].name] # branches[backups[2].name]

\* the tip's content equals the content of the reset target HEAD~N
NoNetChange ==
    LET base == Ancestor(pre.commits, pre.head, input.SquashCount) IN
    /\ base # 0
    /\ pre.commits[base].tree = pre.commits[pre.head].tree

\* C10: when the tip's content equals the reset target's, a squash request
\* without -allow-empty fails before any mutation; with -allow-empty the
\* empty result does not fail the run, and a successful run creates exactly
\* one commit, on the reset target, whose content equals its parent's.
C10_NoNetChange ==
    (Request /\ input.SquashCount >= 2 /\ NoNetChange) =>
        /\ ~input.AllowEmpty =>
              /\ pc \in {"repo", "inprogress", "count", "status", "message",
                         "date", "diff", "exit"}
              /\ ops = <<>>
              /\ head = pre.head
              /\ branches = pre.branches
              /\ stash = pre.stash
              /\ pc = "exit" => exitCode = 1 /\ result = "failed"
        /\ input.AllowEmpty =>
              /\ diag # "no net changes"
              /\ diag = "Failed to create squashed commit"
                   => fault = "commit" \/ info.CommitMessage = <<>>
              /\ Done =>
                   /\ Len(commits) = Len(pre.commits) + 1
                   /\ head = Len(commits)
                   /\ commits[head].p1 =
                        Ancestor(pre.commits, pre.head, input.SquashCount)
                   /\ commits[head].tree = commits[commits[head].p1].tree

C10_Witness ==
    /\ Done
    /\ NoNetChange
    /\ input.AllowEmpty
    /\ head = Len(pre.commits) + 1
    /\ commits[head].tree = commits[commits[head].p1].tree
\* the repository is as the run found it and no mutating command was issued
Untouched ==
    /\ ops = <<>>
    /\ head = pre.head
    /\ commits = pre.commits
    /\ branches = pre.branches
    /\ stash = pre.stash
    /\ wt = pre.wt

\* a squash request that is neither -dry-run nor -print-recovery
RealRun == Request /\ ~input.DryRun /\ ~input.PrintRecovery

\* the executor has been entered
Executing ==
    \/ pc \in {"stash", "backup", "reset", "commit", "apply", "drop", "summary"}
    \/ ops # <<>>
    \/ Done

\* C11: with -no-backup a run creates no backup branch at any point, and every
\* recovery hint and the recovery view it prints name the reflog only, never
\* a backup branch.
C11_NoBackupReflogOnly ==
    (Request /\ input.NoBackup) =>
        /\ branches = pre.branches
        /\ \A i \in 1..Len(ops) : ops[i].op # "branch"
        /\ hint.kind \in {"none", "reflog"}
        /\ hint.name = NoName
        /\ (result = "failed" /\ ResetIssued) => hint.kind = "reflog"
        /\ Executing /\ pc \notin {"stash", "backup"} /\ ops # <<CmdStashPush>>
              => info.BackupName = NoName
        /\ \A i \in 1..Len(out) :
              /\ out[i].name = NoName
              /\ out[i].op \notin {"branch", "reset --hard"}
        /\ result = "preview" /\ input.PrintRecovery
              => \E i \in 1..Len(out) : out[i] = CmdReflog

C11_Witness ==
    /\ Request
    /\ input.NoBackup
    /\ result = "failed"
    /\ diag = "Failed to create squashed commit"
    /\ head # pre.head
    /\ hint = [kind |-> "reflog", name |-> NoName]

\* the answer read at the prompt is y or yes, in any case
Approved ==
    LET r == ToLower(TrimSpace(seen.response)) IN
    r = <<"y">> \/ r = <<"y", "e", "s">>

\* C12: in a real run without -yes on a terminal, any answer that is not y or
\* yes (in any case), the empty answer included, ends the run with exit
\* status 0, nothing stashed, no branch created and the tip where it was.
C12_DeclineIsClean ==
    (RealRun /\ ~input.Yes /\ seen.tty = "yes" /\ ~Approved) =>
        /\ pc = "exit"
        /\ exitCode = 0
        /\ result = "aborted"
        /\ diag = ""
        /\ Untouched

C12_Witness ==
    /\ RealRun
    /\ ~input.Yes
    /\ seen.tty = "yes"
    /\ seen.response = <<>>
    /\ pc = "exit"
    /\ exitCode = 0
    /\ info.Dirty
    /\ input.AllowStash
    /\ stash = pre.stash

\* C13: in a real run without -yes, when stdin is not a terminal the run fails
\* with exit status 1 and mutates nothing; the executor is entered only after
\* a terminal gave an explicit approval.
C13_NoSilentApproval ==
    (RealRun /\ ~input.Yes) =>
        /\ seen.tty = "no" =>
              /\ pc = "exit"
              /\ exitCode = 1
              /\ result = "failed"
              /\ diag = "stdin is not a terminal"
              /\ Untouched
        /\ Executing => seen.tty = "yes" /\ Approved

C13_Witness ==
    /\ RealRun
    /\ ~input.Yes
    /\ seen.tty = "no"
    /\ pc = "exit"
    /\ exitCode = 1
    /\ pre.wt # {}
    /\ input.AllowStash
\* git status has been consulted in this run
StatusChecked == \E i \in 1..Len(probes) : probes[i] = "status"

\* C14: when the tree is dirty and -stash is not given, a real run fails with
\* exit status 1 before any mutation, while a -dry-run / -print-recovery run
\* prints a warning first and goes on to its preview.
C14_DirtyWithoutStash ==
    (Request /\ StatusChecked /\ pre.wt # {} /\ ~input.AllowStash) =>
        /\ info.Dirty
        /\ Untouched
        /\ RealRun =>
              /\ pc = "exit"
              /\ exitCode = 1
              /\ result = "failed"
              /\ diag = "uncommitted changes detected"
              /\ out = <<>>
        /\ ~RealRun =>
              /\ out # <<>>
              /\ out[1] = Cmd("warning")
              /\ diag # "uncommitted changes detected"
              /\ pc = "exit" =>
                    \/ diag = "no net changes"
                    \/ /\ result = "preview"
                       /\ exitCode = 0
                       /\ Len(out) >= 2

C14_Witness ==
    /\ Request
    /\ pre.wt # {}
    /\ ~input.AllowStash
    /\ input.PrintRecovery
    /\ ~input.DryRun
    /\ result = "preview"
    /\ out[1] = Cmd("warning")
    /\ Len(out) = 2

\* the diagnostics of the request errors
RequestErrors ==
    {"-n must be at least 2", "need at least 2 commits",
     "one commit must remain as the base", "uncommitted changes detected",
     "no net changes"}

\* C15: every environment error (git missing, not a repository, operation in
\* progress) and every request error (bad count, dirty tree without -stash,
\* no net change without -allow-empty) ends the run with exit status 1 and
\* with the tip, the branches and the stash stack exactly as they were.
C15_ErrorsLeaveRepository ==
    /\ seen.git = "no" =>
          /\ pc = "exit" /\ exitCode = 1 /\ diag = "git is not installed"
          /\ probes = <<>> /\ Untouched
    /\ seen.inside = "no" =>
          /\ pc = "exit" /\ exitCode = 1 /\ diag = "not a git repository"
          /\ Untouched
    /\ seen.markers # {} =>
          /\ pc = "exit" /\ exitCode = 1 /\ diag = "git operation in progress"
          /\ Untouched
    /\ diag \in RequestErrors =>
          /\ pc = "exit" /\ exitCode = 1 /\ result = "failed"
          /\ hint = NoHint
          /\ Untouched

C15_Witness ==
    /\ pc = "exit"
    /\ exitCode = 1
    /\ seen.markers = {"REBASE_HEAD"}
    /\ diag = "git operation in progress"
    /\ pre.stash # <<>>
    /\ pre.wt # {}
    /\ stash = pre.stash
    /\ head = pre.head
\* the diagnostics of the failures of the mutating steps
ExecutionErrors ==
    {"Failed to stash changes", "refs/stash not found",
     "Failed to create backup branch", "Failed to perform soft reset",
     "Failed to create squashed commit", "Stash apply failed",
     "Applied stash but failed to drop"}

\* this run has created its backup branch
BackupCreated ==
    /\ info.BackupName \in DOMAIN branches
    /\ info.BackupName \notin DOMAIN pre.branches

\* C16: every failure of a mutating step (stash push, backup-branch creation,
\* soft reset, commit, stash apply, stash drop) is reported with a recovery
\* hint: the backup branch name if the run has created one, the reflog
\* fallback otherwise.
C16_EveryFailureHasHint ==
    (pc = "exit" /\ result = "failed" /\ diag \in ExecutionErrors) =>
        hint = IF BackupCreated
               THEN [kind |-> "backup", name |-> info.BackupName]
               ELSE [kind |-> "reflog", name |-> NoName]

\* the changes were stashed, the backup branch could not be created, and the
\* run ended without any hint
C16_Witness ==
    /\ pc = "exit"
    /\ result = "failed"
    /\ diag = "Failed to create backup branch"
    /\ ops = <<CmdStashPush, CmdBranch(info.BackupName)>>
    /\ stash # pre.stash
    /\ wt # pre.wt
    /\ hint = NoHint

\* C17: when reapplying the stash fails the run halts there: no stash drop is
\* ever issued and the stash stack still holds the entry the run pushed, on
\* top of the entries that were there before.
C17_ApplyFailureKeepsStash ==
    (fault = "stash apply" \/ diag = "Stash apply failed") =>
        /\ pc = "exit"
        /\ exitCode = 1
        /\ result = "failed"
        /\ diag = "Stash apply failed"
        /\ ops[Len(ops)] = CmdStashApply
        /\ \A i \in 1..Len(ops) : ops[i].op # "stash drop"
        /\ stash # <<>>
        /\ wt = {} => stash = <<[delta |-> pre.wt, by |-> "locsquash"]>>
                              \o pre.stash
        /\ wt # {} => stash = pre.stash

C17_Witness ==
    /\ pc = "exit"
    /\ diag = "Stash apply failed"
    /\ head # pre.head
    /\ pre.stash # <<>>
    /\ Len(stash) = 2
    /\ stash[1] = [delta |-> {"edit"}, by |-> "locsquash"]
    /\ wt = {}

\* the mutating steps, in the order main issues them
StepOrder == <<"stash push", "branch", "reset --soft", "commit",
               "stash apply", "stash drop">>
StepIndex(op) == CHOOSE k \in 1..Len(StepOrder) : StepOrder[k] = op

\* C18: after a mutating step fails the run stops: the failed command is the
\* last one issued, and the commands issued are only the forward steps, each
\* at most once and in order: no hard reset, no branch deletion, no stash
\* apply or drop as a rollback.
C18_NoRollback ==
    /\ \A i \in 1..Len(ops) :
          \E k \in 1..Len(StepOrder) : StepOrder[k] = ops[i].op
    /\ \A i, j \in 1..Len(ops) :
          i < j => StepIndex(ops[i].op) < StepIndex(ops[j].op)
    /\ fault \notin {"", "stash push: nothing saved"} =>
          /\ pc = "exit"
          /\ result = "failed"
          /\ exitCode = 1
          /\ ops[Len(ops)].op = fault
    /\ result = "failed" => pc = "exit"

C18_Witness ==
    /\ pc = "exit"
    /\ result = "failed"
    /\ fault = "commit"
    /\ Len(ops) = 4
    /\ ops[4].op = "commit"
    /\ head # pre.head
    /\ stash # pre.stash
    /\ BackupCreated
\* the ways a run ends well: the summary of a completed real run was printed,
\* a preview was rendered, or the prompt was answered with something other
\* than y / yes
Completed ==
    /\ RealRun
    /\ out # <<>>
    /\ out[Len(out)].op = "summary"
Rendered ==
    /\ Request
    /\ input.DryRun \/ input.PrintRecovery
    /\ \E i \in 1..Len(out) :
          out[i].op \in {"reset --soft", "reset --hard", "reflog"}
Declined ==
    /\ RealRun
    /\ ~input.Yes
    /\ seen.tty = "yes"
    /\ ~Approved

\* C19: a squash run exits with status 0 exactly when it completed, rendered
\* its preview or was declined at the prompt, and with a non-zero status
\* exactly when it reported a validation or execution failure.
C19_ExitStatus ==
    (pc = "exit" /\ result # "version") =>
        /\ exitCode = 0 <=> (Completed \/ Rendered \/ Declined)
        /\ exitCode # 0 <=> diag # ""
        /\ exitCode # 0 <=> result = "failed"
        /\ diag # "" =>
              diag \in ExecutionErrors \cup RequestErrors \cup
                       {"git is not installed", "not a git repository",
                        "git operation in progress", "cannot count commits",
                        "Failed to retrieve oldest commit message",
                        "Error checking commit diff",
                        "stdin is not a terminal",
                        "flag provided but not defined"}

C19_Witness ==
    /\ pc = "exit"
    /\ exitCode = 0
    /\ Rendered
    /\ input.DryRun
    /\ input.PrintRecovery
    /\ Len(out) = 3

\* the oldest folded commit's message has been read in this run
MessagePlanned == \E i \in 1..Len(probes) : probes[i] = "message"

\* C20: the final commit message of a plan is never empty: when the override
\* is blank or absent and the oldest folded commit has an empty message, the
\* run ends in an error before any mutation.
C20_MessageNeverEmpty ==
    (Request /\ MessagePlanned /\ info.CommitMessage = <<>>) =>
        /\ pc = "exit"
        /\ exitCode = 1
        /\ result = "failed"
        /\ Untouched

\* the plan went ahead with an empty message: the tip was moved by the soft
\* reset before git commit refused the message
C20_Witness ==
    /\ Request
    /\ TrimSpace(input.NewMessage) = <<>>
    /\ info.CommitMessage = <<>>
    /\ pc = "exit"
    /\ diag = "Failed to create squashed commit"
    /\ fault = ""
    /\ head # pre.head
    /\ ops # <<>>

\* the commit list of the plan has been read in this run
Listed == \E i \in 1..Len(probes) : probes[i] = "log"

\* C21: whenever a plan is built, the plan's commit list has exactly N
\* entries, one per folded commit from the tip down, whatever the subjects of
\* the commits are (empty subjects included).
C21_ListLength ==
    (Request /\ Listed) =>
        /\ Len(info.Commits) = input.SquashCount
        /\ \A k \in 1..Len(info.Commits) :
              info.Commits[k].Hash = <<Hash(Ancestor(pre.commits, pre.head, k - 1))>>

\* the oldest folded commit has an empty subject: its line lost its tab when
\* the whole output was trimmed, was dropped, and the completed run had listed
\* one commit fewer than it folded
C21_Witness ==
    /\ Done
    /\ Listed
    /\ input.SquashCount = 2
    /\ pre.commits[Ancestor(pre.commits, pre.head, 1)].msg = <<>>
    /\ Len(info.Commits) = 1
    /\ RevListCount(commits, head) = Total - 1

\* what -dry-run lists for the plan of this run: the plan is the one main has
\* built by line 118, with the backup name as line 103 computed it
PlannedOps == printDryRun(input, [info EXCEPT !.BackupName = BackupNameAt(now)])

\* the command names of a list of operations, in order
OpNames(s) == [i \in 1..Len(s) |-> s[i].op]

\* C22: the operations the dry-run preview lists for a plan are in the same
\* order as the mutating operations the executor performs for that plan, the
\* conditional stash and backup steps included: at every point of a real run
\* the commands issued so far are the first commands of the preview's list.
C22_PreviewOrder ==
    (RealRun /\ Listed) =>
        /\ Len(ops) <= Len(PlannedOps)
        /\ OpNames(ops) = SubSeq(OpNames(PlannedOps), 1, Len(ops))
        /\ Done => Len(ops) = Len(PlannedOps)

\* a completed run that stashed and made a backup: the preview of its plan
\* lists the branch first and the stash second, the run did the opposite
C22_Witness ==
    /\ Done
    /\ RealRun
    /\ Len(ops) = 6
    /\ ops[1] = CmdStashPush
    /\ ops[2].op = "branch"
    /\ PlannedOps[1].op = "branch"
    /\ PlannedOps[2] = CmdStashPush
    /\ SubSeq(OpNames(ops), 3, 6) = SubSeq(OpNames(PlannedOps), 3, 6)

\* the operations of a list, without their order
OpSet(s) == {s[i] : i \in 1..Len(s)}

\* C23: the dry-run preview does not differ in content from what the executor
\* does for the same request and repository state: the operations a completed
\* real run has executed, with their arguments (backup branch name, reset
\* target, date, message, allow-empty flag), are exactly the operations the
\* preview of its plan lists.
C23_PreviewContent ==
    (Done /\ RealRun) => OpSet(ops) = OpSet(PlannedOps)

\* the name the plan holds was taken: the completed run created its backup
\* under a suffixed name, which the preview of the plan does not show
C23_Witness ==
    /\ Done
    /\ RealRun
    /\ CmdBranch(BackupNameAt(now)) \in OpSet(PlannedOps)
    /\ BackupNameAt(now) \in DOMAIN pre.branches
    /\ info.BackupName.suf = 2
    /\ CmdBranch(info.BackupName) \in OpSet(ops)
    /\ OpSet(ops) \ {CmdBranch(info.BackupName)}
          = OpSet(PlannedOps) \ {CmdBranch(BackupNameAt(now))}

\* the git branch command of the backup has been issued in this run
BranchIssued == \E i \in 1..Len(ops) : ops[i].op = "branch"

\* C24: in a real run that creates a backup branch, the branch is created
\* before any change is made to the repository, in particular before the
\* uncommitted changes are stashed: git branch is the first mutating command,
\* and when the branch has just been created the tip, the working tree and
\* the stash stack are as the run found them.
C24_BackupFirst ==
    (RealRun /\ BranchIssued) =>
        /\ ops[1].op = "branch"
        /\ \A i \in 1..Len(ops) :
              ops[i].op = "stash push" => \E j \in 1..(i - 1) : ops[j].op = "branch"
        /\ (pc = "reset" /\ BackupCreated) =>
              /\ head = pre.head
              /\ commits = pre.commits
              /\ wt = pre.wt
              /\ stash = pre.stash

\* the backup branch has just been created, after the uncommitted changes
\* had been moved from the working tree to a new stash entry
C24_Witness ==
    /\ RealRun
    /\ pc = "reset"
    /\ BackupCreated
    /\ ops = <<CmdStashPush, CmdBranch(info.BackupName)>>
    /\ pre.wt # {}
    /\ wt = {}
    /\ stash = <<[delta |-> pre.wt, by |-> "locsquash"]>> \o pre.stash
    /\ head = pre.head

\* the branches this run has created
CreatedBranches == DOMAIN branches \ DOMAIN pre.branches

\* C25: once a backup branch has been created, the name it was created under
\* (suffixed or not) is the name the plan holds for the rest of the run: every
\* later failure carries the recovery hint with exactly that name, the
\* success summary prints exactly that name, and the branch stays where it
\* was created.
C25_BackupNameFixed ==
    \A nm \in CreatedBranches :
        /\ CreatedBranches = {nm}
        /\ branches[nm] = pre.head
        /\ info.BackupName = nm
        /\ \E i \in 1..Len(ops) : ops[i] = CmdBranch(nm)
        /\ hint \in {NoHint, [kind |-> "backup", name |-> nm]}
        /\ result = "failed" => hint = [kind |-> "backup", name |-> nm]
        /\ \A k \in 1..Len(out) : out[k].op = "summary" => out[k] = CmdSummary(nm)
        /\ Done => out = <<CmdSummary(nm)>>

C25_Witness ==
    /\ Done
    /\ CreatedBranches = {[sec |-> now, suf |-> 2]}
    /\ BackupNameAt(now) \in DOMAIN pre.branches
    /\ info.BackupName = [sec |-> now, suf |-> 2]
    /\ out = <<CmdSummary([sec |-> now, suf |-> 2])>>

\* C26: when one of the operation markers (REBASE_HEAD, MERGE_HEAD,
\* CHERRY_PICK_HEAD, BISECT_LOG) is present, a run that gets to the check
\* fails there in every mode (real, -dry-run, -print-recovery): exit status 1,
\* before the commit count is read, before anything is printed and before any
\* mutation.
C26_InProgressStops ==
    (seen.markers # {}) =>
        /\ Request
        /\ \E i \in 1..Len(Markers) : Markers[i] \in seen.markers
        /\ pc = "exit"
        /\ exitCode = 1
        /\ result = "failed"
        /\ diag = "git operation in progress"
        /\ probes = <<"repo", "inprogress">>
        /\ out = <<>>
        /\ info = ZeroInfo
        /\ Untouched

C26_Witness ==
    /\ seen.markers = {"BISECT_LOG"}
    /\ input.DryRun
    /\ input.PrintRecovery
    /\ pc = "exit"
    /\ exitCode = 1
    /\ probes = <<"repo", "inprogress">>
    /\ pre.wt # {}
    /\ Total >= 3

\* the commit count has been read in this run
Counted == \E i \in 1..Len(probes) : probes[i] = "count"

\* C27 as stated: for a repository with fewer than 2 commits, every request
\* with N >= 2 that gets to the count fails with the "need at least 2
\* commits" diagnostic.
C27_FewerThanTwo ==
    (Request /\ Counted /\ Total < 2) =>
        /\ pc = "exit"
        /\ exitCode = 1
        /\ diag = "need at least 2 commits"

\* C27, amended: for a repository with exactly one commit, every request with
\* N >= 2 that gets to the count fails with the "need at least 2 commits"
\* diagnostic, never with the N < total one: the total is checked first.  A
\* repository with no commit at all fails one step earlier, when the count
\* cannot be read.  Either way nothing is mutated.
C27_SingleCommit ==
    (Request /\ Counted /\ Total < 2) =>
        /\ input.SquashCount >= MinSquash
        /\ pc = "exit"
        /\ exitCode = 1
        /\ result = "failed"
        /\ Total = 1 => diag = "need at least 2 commits"
        /\ Total = 0 => diag = "cannot count commits"
        /\ Untouched

C27_Witness ==
    /\ Request
    /\ Counted
    /\ Total = 1
    /\ input.SquashCount = 3
    /\ input.DryRun
    /\ pc = "exit"
    /\ exitCode = 1
    /\ diag = "need at least 2 commits"

\* C28: a run with -list-backups enumerates the existing backup branches and
\* exits with status 0 without performing any mutation.
C28_ListBackups ==
    (seen.listBackups = "yes") =>
        /\ pc = "exit"
        /\ exitCode = 0
        /\ diag = ""
        /\ {out[i].name : i \in 1..Len(out)} = DOMAIN branches
        /\ Untouched

\* -list-backups was given: nothing was listed and the run ended with the
\* status of a usage error, the repository as it was
C28_Witness ==
    /\ seen.listBackups = "yes"
    /\ pc = "exit"
    /\ exitCode = 2
    /\ diag = "flag provided but not defined"
    /\ DOMAIN branches # {}
    /\ out = <<>>
    /\ probes = <<>>
    /\ Untouched

\* the names base, base-2, base-3, ..., base-10, in that order
Candidates(base) ==
    [k \in 1..10 |-> IF k = 1 THEN base ELSE [base EXCEPT !.suf = k]]

\* the backup step of this run is over
BackupAttempted ==
    \/ BranchIssued
    \/ diag = "Failed to create backup branch"

\* C29: createBackupBranch takes the first of the names base, base-2, base-3,
\* ..., base-10 that does not exist, creates a branch at the current tip
\* under it and returns that name; when all 10 names exist it fails having
\* created no branch; no existing branch is moved or overwritten.
C29_CreateBackupBranch ==
    LET names == Candidates(BackupNameAt(now)) IN
    BackupAttempted =>
        /\ \A b \in DOMAIN pre.branches :
              b \in DOMAIN branches /\ branches[b] = pre.branches[b]
        /\ \A nm \in CreatedBranches :
              /\ CreatedBranches = {nm}
              /\ branches[nm] = pre.head
              /\ info.BackupName = nm
              /\ \E k \in 1..10 :
                    /\ names[k] = nm
                    /\ \A j \in 1..(k - 1) : names[j] \in DOMAIN pre.branches
        /\ (CreatedBranches = {} /\ fault # "branch") =>
              /\ diag = "Failed to create backup branch"
              /\ \A k \in 1..10 : names[k] \in DOMAIN pre.branches
              /\ ~BranchIssued
        /\ (\A k \in 1..10 : names[k] \in DOMAIN pre.branches) =>
              /\ pc = "exit"
              /\ result = "failed"
              /\ branches = pre.branches

\* nine names were taken: the branch was created under the tenth, base-10
C29_Witness ==
    /\ Done
    /\ Cardinality(DOMAIN pre.branches) = 9
    /\ CreatedBranches = {[sec |-> now, suf |-> 10]}
    /\ branches[[sec |-> now, suf |-> 10]] = pre.head
    /\ head # pre.head

\* all ten names were taken: the run failed and created nothing
C29_WitnessFull ==
    /\ pc = "exit"
    /\ diag = "Failed to create backup branch"
    /\ fault = ""
    /\ Cardinality(DOMAIN pre.branches) = 10
    /\ branches = pre.branches

\* the oldest commit the request folds, HEAD~(N-1) of the repository as found
OldestFolded == Ancestor(pre.commits, pre.head, input.SquashCount - 1)

\* C30: the final commit message is the trimmed -m override whenever that
\* trimmed override is not empty, and otherwise (no override, or one made of
\* whitespace only) the trimmed message of the oldest folded commit; the
\* squashed commit of a completed run carries exactly that message.
C30_FinalMessage ==
    (Request /\ MessagePlanned /\ OldestFolded # 0) =>
        /\ TrimSpace(input.NewMessage) # <<>> =>
              info.CommitMessage = TrimSpace(input.NewMessage)
        /\ TrimSpace(input.NewMessage) = <<>> =>
              info.CommitMessage = TrimSpace(pre.commits[OldestFolded].msg)
        /\ Done => commits[head].msg = info.CommitMessage \o <<"\n">>
        /\ \A i \in 1..Len(ops) :
              ops[i].op = "commit" => ops[i].msg = info.CommitMessage
        /\ \A i \in 1..Len(out) :
              out[i].op = "commit" => out[i].msg = info.CommitMessage

\* an override of one blank: the completed run used the oldest folded
\* commit's message
C30_Witness ==
    /\ Done
    /\ input.NewMessage = <<" ">>
    /\ input.SquashCount = 2
    /\ info.CommitMessage = <<"c", "2">>
    /\ commits[head].msg = <<"c", "2", "\n">>
    /\ Total = 3

\* an override with blanks around it: the completed run used it, trimmed
C30_WitnessOverride ==
    /\ Done
    /\ input.NewMessage = <<" ", "m", "\n">>
    /\ commits[head].msg = <<"m", "\n">>

\* the count checks of lines 62-67 have passed in this run
Validated == \E i \in 1..Len(probes) : probes[i] = "status"

\* the commits on the first-parent chain of the tip the run found
RECURSIVE ChainLength(_, _)
ChainLength(cs, c) == IF c = 0 THEN 0 ELSE 1 + ChainLength(cs, cs[c].p1)

\* C31: for every request that passes validation (2 <= N < total commit
\* count) the reset target HEAD~N names an existing commit, N commits behind
\* the tip on the first-parent chain, whatever the shape of the history is,
\* histories with merge commits included; the plan never fails for a target
\* or an oldest folded commit that does not exist.
C31_ResetTargetExists ==
    (Request /\ Validated) =>
        /\ input.SquashCount >= MinSquash
        /\ input.SquashCount < Total
        /\ Ancestor(pre.commits, pre.head, input.SquashCount) # 0
        /\ input.SquashCount < ChainLength(pre.commits, pre.head)
        /\ diag \notin {"Failed to retrieve oldest commit message",
                        "Error checking commit diff"}

\* the tip merges a side branch: four commits are reachable, three of them on
\* the first-parent chain; -n 3 passed the count checks and the run failed
\* when it compared the tip with HEAD~3, which does not exist
C31_Witness ==
    /\ Request
    /\ Validated
    /\ Total = 4
    /\ ChainLength(pre.commits, pre.head) = 3
    /\ input.SquashCount = 3
    /\ pc = "exit"
    /\ diag = "Error checking commit diff"
    /\ Untouched

\* the inspections of validation and planning, in the order main makes them
PlanProbes == <<"repo", "inprogress", "count", "status", "message", "date",
                "diff", "log">>

\* C32: every validation and planning failure (bad count, dirty tree without
\* -stash, no net change without -allow-empty) is raised before the
\* confirmation step: the prompt, and with it the "not a terminal" failure of
\* a non-interactive real run without -yes, is reached only when validation
\* and planning have succeeded.
C32_ValidationBeforeConfirm ==
    /\ (seen.tty # "?" \/ diag = "stdin is not a terminal") =>
          /\ RealRun
          /\ ~input.Yes
          /\ probes = PlanProbes
          /\ input.SquashCount >= MinSquash
          /\ input.SquashCount < Total
          /\ pre.wt # {} => input.AllowStash
          /\ NoNetChange => input.AllowEmpty
          /\ diag \notin RequestErrors
    /\ diag \in RequestErrors =>
          /\ seen.tty = "?"
          /\ Len(probes) < Len(PlanProbes)

C32_Witness ==
    /\ RealRun
    /\ ~input.Yes
    /\ seen.tty = "no"
    /\ pc = "exit"
    /\ diag = "stdin is not a terminal"
    /\ probes = PlanProbes
    /\ pre.wt # {}
    /\ NoNetChange

\* C33: when the stash push reports success but refs/stash does not resolve
\* afterwards, the run stops at once with a failure: no backup branch is
\* created, the tip is not moved and no commit is created.
C33_StashRefNotFound ==
    /\ (fault = "stash push: nothing saved" /\ pre.stash = <<>>) =>
          /\ pc = "exit"
          /\ result = "failed"
          /\ diag = "refs/stash not found"
    /\ diag = "refs/stash not found" =>
          /\ pc = "exit"
          /\ exitCode = 1
          /\ result = "failed"
          /\ stashedRef = ""
          /\ ops = <<CmdStashPush>>
          /\ branches = pre.branches
          /\ head = pre.head
          /\ commits = pre.commits
          /\ stash = <<>>

C33_Witness ==
    /\ RealRun
    /\ fault = "stash push: nothing saved"
    /\ pre.stash = <<>>
    /\ pc = "exit"
    /\ exitCode = 1
    /\ diag = "refs/stash not found"
    /\ ~input.NoBackup
    /\ branches = <<>>
    /\ head = pre.head

\* C34: the stash entry is dropped only after its reapplication has
\* succeeded: in every run a stash drop is issued at most once, and only
\* immediately after a stash apply of the same reference that did not fail
\* and put the stashed changes back into the working tree.
C34_DropAfterApply ==
    /\ \A i, j \in 1..Len(ops) :
          (ops[i].op = "stash drop" /\ ops[j].op = "stash drop") => i = j
    /\ \A i \in 1..Len(ops) :
          ops[i].op = "stash drop" =>
              /\ i > 1
              /\ ops[i - 1] = CmdStashApply
              /\ fault # "stash apply"
              /\ diag # "Stash apply failed"
              /\ stashedRef = StashRef
    /\ pc = "drop" =>
          /\ ops[Len(ops)] = CmdStashApply
          /\ fault = "" \/ fault = "stash push: nothing saved"
          /\ stash # <<>>
          /\ stash[1].delta \subseteq wt
    /\ (Len(stash) < Len(pre.stash) \/ (Done /\ stashedRef # ""))
          => \E i \in 1..Len(ops) : ops[i].op = "stash drop"

C34_Witness ==
    /\ Done
    /\ Len(ops) = 6
    /\ ops[5] = CmdStashApply
    /\ ops[6] = CmdStashDrop
    /\ pre.wt # {}
    /\ wt = pre.wt
    /\ stash = pre.stash
    /\ fault = ""

\* C35: when the stash drop fails after the apply succeeded, the run ends
\* with a non-zero exit status although the squashed commit exists and the
\* uncommitted changes are back in the working tree; the stash entry is still
\* on the stack.
C35_DropFailure ==
    (fault = "stash drop" \/ diag = "Applied stash but failed to drop") =>
        /\ pc = "exit"
        /\ exitCode # 0
        /\ result = "failed"
        /\ diag = "Applied stash but failed to drop"
        /\ fault = "stash drop"
        /\ ops[Len(ops)] = CmdStashDrop
        /\ ops[Len(ops) - 1] = CmdStashApply
        /\ head = Len(pre.commits) + 1
        /\ commits[head].p1 = Ancestor(pre.commits, pre.head, input.SquashCount)
        /\ pre.wt # {}
        /\ pre.wt \subseteq wt
        /\ stash # <<>>
        /\ Len(stash) >= Len(pre.stash)
        /\ stash[1].delta \subseteq wt
        /\ \E i \in 1..(Len(stash) + 1) :
              SubSeq(stash, i, Len(stash)) = pre.stash

C35_Witness ==
    /\ pc = "exit"
    /\ exitCode = 1
    /\ fault = "stash drop"
    /\ head = Len(pre.commits) + 1
    /\ wt = pre.wt
    /\ stash = <<[delta |-> pre.wt, by |-> "locsquash"]>> \o pre.stash
    /\ pre.stash # <<>>
    /\ hint.kind = "backup"

\* a git command of this run has failed: the environment made it fail, or git
\* refused the commit for its empty message
GitFailed == fault # "" \/ info.CommitMessage = <<>>

LoopIterations(brs, base) ==
    LET created == createBackupBranch(brs, base) IN
    IF created = NoName THEN maxAttempts
    ELSE IF created.suf = 0 THEN 1 ELSE created.suf

\* the run is over in one of its final states
Terminated == pc = "exit" /\ result # "running"

\* C37: every run terminates: each step of main is taken at most once, so a
\* run inspects the repository at most 8 times and issues at most 7 commands
\* before it reaches a final state, and the retry loop of createBackupBranch
\* performs at most 10 iterations.
C37_Terminates ==
    /\ [](Len(probes) <= 8 /\ Len(ops) <= 7)
    /\ [](BackupAttempted => LoopIterations(pre.branches, BackupNameAt(now)) <= 10)
    /\ (pc # "exit") ~> Terminated

\* all ten names were taken: the loop gave up after its tenth iteration and
\* the run ended Failed
C37_Witness ==
    /\ Terminated
    /\ result = "failed"
    /\ diag = "Failed to create backup branch"
    /\ LoopIterations(pre.branches, BackupNameAt(now)) = 10
    /\ ops = <<>>
\* the entry this run pushed is on the stash stack
HeldInStash ==
    \E i \in 1..Len(stash) : stash[i] = [delta |-> pre.wt, by |-> "locsquash"]

\* C38: in every state of a real run that stashed the uncommitted changes,
\* every failure state included (backup, soft reset, commit, apply or drop
\* failed), the changes are held in the stash entry of the run or are present
\* in the working tree: they are never lost.
C38_ChangesNeverLost ==
    (RealRun /\ stashedRef # "") =>
        /\ pre.wt # {}
        /\ HeldInStash \/ pre.wt \subseteq wt

\* the commit failed after the stash: the changes are in the stash entry only
C38_Witness ==
    /\ RealRun
    /\ stashedRef # ""
    /\ pc = "exit"
    /\ fault = "commit"
    /\ wt = {}
    /\ HeldInStash
    /\ head = pre.head - input.SquashCount
\* the entries that were on the stash stack before the run are all still
\* there, in their order, below whatever the run has pushed
ForeignEntriesKept ==
    \E i \in 1..(Len(stash) + 1) : SubSeq(stash, i, Len(stash)) = pre.stash

\* C39: a run never applies or drops a stash entry it did not create: the
\* entries that existed before the run are still present, in the same
\* relative order, and the working tree has received none of their content;
\* when the tree is clean or -stash is not given the run issues no stash
\* push, apply or drop at all.
C39_ForeignStashUntouched ==
    Request =>
        /\ ForeignEntriesKept
        /\ wt \subseteq pre.wt
        /\ (pre.wt = {} \/ ~input.AllowStash) =>
              \A i \in 1..Len(ops) :
                  ops[i].op \notin {"stash push", "stash apply", "stash drop"}

\* the push saved nothing while an entry of the user was on top of the stack:
\* the run applied that entry to the working tree and dropped it
C39_Witness ==
    /\ Done
    /\ RealRun
    /\ fault = "stash push: nothing saved"
    /\ pre.stash = <<[delta |-> {"old"}, by |-> "user"]>>
    /\ stash = <<>>
    /\ "old" \in wt
    /\ "old" \notin pre.wt
    /\ {"stash push", "stash apply", "stash drop"}
          \subseteq {ops[i].op : i \in 1..Len(ops)}
\* C40: a successful real run creates exactly one new commit: its parent is
\* the commit that was N behind the old tip and its content equals the
\* content of the old tip, whether or not uncommitted changes were stashed.
C40_OneNewCommit ==
    Done =>
        /\ Len(commits) = Len(pre.commits) + 1
        /\ SubSeq(commits, 1, Len(pre.commits)) = pre.commits
        /\ head = Len(commits)
        /\ commits[head].p1 = Ancestor(pre.commits, pre.head, input.SquashCount)
        /\ commits[head].p1 # 0
        /\ commits[head].p2 = 0
        /\ commits[head].tree = pre.commits[pre.head].tree

\* changes were stashed and restored; the new commit has the content of the
\* old tip, which differs from the content of its parent
C40_Witness ==
    /\ Done
    /\ stashedRef # ""
    /\ wt = pre.wt
    /\ pre.wt # {}
    /\ Len(commits) = Len(pre.commits) + 1
    /\ commits[head].tree = pre.commits[pre.head].tree
    /\ commits[head].tree # commits[commits[head].p1].tree
====
